---- MODULE Spec2Model ----
(***************************************************************************)
(* createAction (src/src/utils/meta/generate-meta.ts): the action factory  *)
(* and the asynchronous function it returns, as a state machine.  One      *)
(* invocation runs from its call to the first await (fetch), from there to *)
(* the second await (the body read or the response transform) and from     *)
(* there to its settlement; the try/catch of the function normalises       *)
(* whatever was thrown on the way.                                         *)
(***************************************************************************)
EXTENDS Integers, Sequences, FiniteSets, TLC

VARIABLES
    config,     \* the ActionConfig handed to createAction, as written by the caller
    closure,    \* the bindings of createAction's destructured parameter
    API_URL,    \* process.env.API_URL
    active,     \* the invocation slots the callers use
    inv,        \* per slot: the state of the invocation running in it
    processEnv, \* process.env as app/sitemap.ts and app/robots.ts read it
    appDir,     \* the directory src/app as fs.readdirSync lists it
    routing,    \* locales and defaultLocale of i18n/routing
    seo         \* what the sitemap and the robots routes have returned

vars == <<config, closure, API_URL, active, inv, processEnv, appDir, routing, seo>>

\* Longest tag list a descriptor declares.
MaxTags == 2
MaxEntries == 2

(***************************************************************************)
(* JavaScript values.                                                      *)
(***************************************************************************)
Undefined == [t |-> "undefined"]
Null == [t |-> "null"]
Num(n) == [t |-> "number", n |-> n]
BigInt(n) == [t |-> "bigint", n |-> n]
Str(s) == [t |-> "string", s |-> s]
\* A plain object: its own enumerable properties, in insertion order.
Obj(entries) == [t |-> "object", entries |-> entries]
\* A FormData instance: an object with no own enumerable property.
FormData(id) == [t |-> "FormData", id |-> id]
\* A Headers instance and an array of pairs: the other two shapes of HeadersInit.
HeadersInstance(entries) == [t |-> "Headers", entries |-> entries]
PairArray(entries) == [t |-> "Array", entries |-> entries]
\* An Error instance as the throw sites build it: no cause, no status property;
\* oid is the identity of the object.
ErrorObj(name, message, oid) ==
    [t |-> "Error", name |-> name, message |-> message, oid |-> oid,
     cause |-> Undefined, status |-> Undefined]

IsObjectType(v) == v.t \in {"null", "object", "FormData", "Headers", "Array", "Error"}
\* Truthiness of a value in a condition.
Truthy(v) ==
    CASE v.t \in {"undefined", "null"} -> FALSE
      [] v.t \in {"number", "bigint"} -> v.n # 0
      [] v.t = "string" -> v.s # ""
      [] OTHER -> TRUE

Digit(d) == SubSeq("0123456789", d + 1, d + 1)
RECURSIVE NatToString(_)
NatToString(n) == IF n < 10 THEN Digit(n) ELSE NatToString(n \div 10) \o Digit(n % 10)

\* String(value), also what a template literal does to an interpolated value.
ToStr(v) ==
    CASE v.t = "undefined" -> "undefined"
      [] v.t = "null" -> "null"
      [] v.t \in {"number", "bigint"} -> NatToString(v.n)
      [] v.t = "string" -> v.s
      [] v.t = "object" -> "[object Object]"
      [] v.t = "FormData" -> "[object FormData]"
      [] v.t = "Headers" -> "[object Headers]"
      [] v.t = "Error" -> v.name \o ": " \o v.message
      [] OTHER -> ""

\* Object.entries(value) for a value that passed the typeof 'object' test.
ObjectEntries(v) == IF v.t \in {"object"} THEN v.entries ELSE <<>>

\* JSON.stringify of a property value; the payloads nest one level.
JSONScalar(v) ==
    CASE v.t = "null" -> "null"
      [] v.t = "number" -> NatToString(v.n)
      [] v.t = "string" -> "\"" \o v.s \o "\""
      [] OTHER -> "{}"

RECURSIVE JSONMembers(_, _)
JSONMembers(entries, first) ==
    IF entries = <<>> THEN ""
    ELSE IF Head(entries)[2].t = "undefined" THEN JSONMembers(Tail(entries), first)
    ELSE (IF first THEN "" ELSE ",")
         \o "\"" \o Head(entries)[1] \o "\":" \o JSONScalar(Head(entries)[2])
         \o JSONMembers(Tail(entries), FALSE)

\* JSON.stringify throws a TypeError on a BigInt.
JSONStringifyThrows(v) == v.t = "bigint"
\* JSON.stringify(value): a string, or undefined for undefined.
JSONStringify(v) ==
    CASE v.t = "undefined" -> Undefined
      [] v.t = "object" -> Str("{" \o JSONMembers(v.entries, TRUE) \o "}")
      [] v.t \in {"FormData", "Headers"} -> Str("{}")
      [] OTHER -> Str(JSONScalar(v))

\* String.prototype.includes
Includes(s, sub) ==
    \E i \in 1..(Len(s) - Len(sub) + 1) : SubSeq(s, i, i + Len(sub) - 1) = sub

(***************************************************************************)
(* The descriptors, payloads and responses the model draws from.           *)
(***************************************************************************)
Methods == {Undefined, Str("GET"), Str("POST"), Str("DELETE")}

HeaderShapes ==
    { Undefined,
      Obj(<< <<"Content-Type", "application/json">>, <<"Authorization", "Bearer token">> >>),
      Obj(<< <<"content-type", "application/json">>, <<"Authorization", "Bearer token">> >>),
      HeadersInstance(<< <<"Content-Type", "application/json">> >>) }

TagNames == {"users", "profiles"}
RECURSIVE TagSeqs(_)
TagSeqs(n) ==
    IF n = 0 THEN {<<>>}
    ELSE TagSeqs(n - 1) \cup
         {Append(q, g) : q \in {p \in TagSeqs(n - 1) : Len(p) = n - 1}, g \in TagNames}
TagShapes ==
    {Undefined, Str(""), Str("users")} \cup {PairArray(q) : q \in TagSeqs(MaxTags)}

RequestTransforms == {"none", "stamp", "drop", "throwError", "throwString"}
ResponseTransforms == {"none", "pickData"}

Configs ==
    [input : {"/users"}, method : Methods, headers : HeaderShapes, tags : TagShapes,
     request : RequestTransforms, response : ResponseTransforms]

Environments == {Undefined, Str(""), Str("https://api.example.com")}

Payloads ==
    { Undefined, Null, Str("x"), BigInt(1),
      Obj(<<>>),
      Obj(<< <<"page", Num(1)>>, <<"q", Null>> >>),
      Obj(<< <<"name", Str("x")>>, <<"limit", Undefined>>, <<"page", Num(10)>> >>),
      FormData(1) }

Statuses == {200, 299, 300, 500}
Bodies ==
    { [contentType |-> Str("application/json"), text |-> "{\"data\":{\"id\":2}}"],
      [contentType |-> Str("application/json; charset=utf-8"), text |-> "{\"id\":2}"],
      [contentType |-> Str("application/json"), text |-> "<html>"],
      [contentType |-> Str("text/plain"), text |-> "{\"id\":2}"],
      [contentType |-> Null, text |-> ""] }
Responses ==
    {[status |-> st, contentType |-> b.contentType, text |-> b.text] : st \in Statuses, b \in Bodies}

(***************************************************************************)
(* createAction: the defaults of the destructured parameter.               *)
(***************************************************************************)
\* Mutant: GET as the default method.
CreateAction_DefaultsToGet(cfg) ==
    [input |-> cfg.input,
     method |-> IF cfg.method = Undefined THEN "GET" ELSE cfg.method.s,
     headers |-> IF cfg.headers = Undefined
                 THEN Obj(<< <<"Content-Type", "application/json">> >>)
                 ELSE cfg.headers,
     tags |-> cfg.tags,
     transform |-> [request |-> cfg.request, response |-> cfg.response]]
\* The bindings the returned function closes over.
CreateAction(cfg) ==
    [input |-> cfg.input,
     method |-> IF cfg.method = Undefined THEN "POST" ELSE cfg.method.s,
     headers |-> IF cfg.headers = Undefined
                 THEN Obj(<< <<"Content-Type", "application/json">> >>)
                 ELSE cfg.headers,
     tags |-> cfg.tags,
     transform |-> [request |-> cfg.request, response |-> cfg.response]]
method == closure.method
headers == closure.headers
tags == closure.tags
input == closure.input
transform == closure.transform

(***************************************************************************)
(* The request.                                                             *)
(***************************************************************************)
\* { ...data }: the own enumerable properties of the spread value.
Spread(v) ==
    CASE v.t = "object" -> v.entries
      [] v.t = "string" -> [i \in 1..Len(v.s) |-> <<NatToString(i - 1), Str(SubSeq(v.s, i, i))>>]
      [] OTHER -> <<>>

\* transform.request(data), for the transforms that return.
ApplyRequestTransform(f, data) ==
    CASE f = "stamp" -> Obj(Spread(data) \o << <<"timestamp", Num(7)>> >>)
      [] f = "drop" -> Undefined
      [] OTHER -> data
\* Mutant: no request transform ever throws.
RequestTransformThrows_Never(f) == FALSE
RequestTransformThrows(f) == f \in {"throwError", "throwString"}
RequestTransformThrown(f) ==
    IF f = "throwError" THEN ErrorObj("Error", "invalid input", "transform.request")
    ELSE Str("invalid input")

\* Mutant: the payload tested for truthiness instead of against undefined.
TransformsRequest_Truthy(f, data) == f # "none" /\ Truthy(data)
\* The condition under which transform.request is called.
TransformsRequest(f, data) == f # "none" /\ data # Undefined
requestDataOf(f, data) ==
    IF TransformsRequest(f, data) THEN ApplyRequestTransform(f, data) ELSE data

\* `${process.env.API_URL}${input}` and whether new URL accepts it.
Href(env, path) == ToStr(env) \o path
StartsWith(s, prefix) == Len(s) >= Len(prefix) /\ SubSeq(s, 1, Len(prefix)) = prefix
\* Mutant: the URL kept as the concatenated string, never parsed.
URLThrows_NeverParsed(href) == FALSE
URLThrows(href) ==
    ~ \E scheme \in {"http://", "https://"} :
        StartsWith(href, scheme) /\ Len(href) > Len(scheme)
           /\ SubSeq(href, Len(scheme) + 1, Len(scheme) + 1) # "/"

\* url.searchParams after the GET branch.
RECURSIVE AppendDefined(_)
\* Mutant: only undefined is filtered, null is appended as "null".
AppendDefined_KeepsNull(entries) ==
    IF entries = <<>> THEN <<>>
    ELSE (IF Head(entries)[2].t # "undefined"
          THEN << <<Head(entries)[1], ToStr(Head(entries)[2])>> >>
          ELSE <<>>) \o AppendDefined(Tail(entries))
AppendDefined(entries) ==
    IF entries = <<>> THEN <<>>
    ELSE (IF Head(entries)[2].t \notin {"undefined", "null"}
          THEN << <<Head(entries)[1], ToStr(Head(entries)[2])>> >>
          ELSE <<>>) \o AppendDefined(Tail(entries))
SearchParams(m, requestData) ==
    IF m = "GET" /\ Truthy(requestData) /\ IsObjectType(requestData)
    THEN AppendDefined(ObjectEntries(requestData))
    ELSE <<>>

\* Mutant: a body attached whatever the method.
AttachesBody_AnyMethod(m, requestData) == requestData # Undefined
\* The condition of the body branch, and its two arms.
AttachesBody(m, requestData) == m # "GET" /\ requestData # Undefined
IsFormData(requestData) == requestData.t = "FormData"
\* headers && typeof headers === 'object' && 'Content-Type' in headers
HasContentTypeKey(h) ==
    /\ Truthy(h) /\ IsObjectType(h)
    /\ h.t = "object" /\ \E k \in 1..Len(h.entries) : h.entries[k][1] = "Content-Type"
\* Mutant: the copy sent without any of the configured headers.
WithoutContentType_DropsAll(h) == Obj(<<>>)
\* const newHeaders = { ...headers }; delete newHeaders['Content-Type']
WithoutContentType(h) == Obj(SelectSeq(h.entries, LAMBDA e : e[1] # "Content-Type"))

\* Mutant: Content-Type dropped whenever a body is attached.
FetchHeaders_StripsForAnyBody(m, h, requestData) ==
    IF AttachesBody(m, requestData) /\ HasContentTypeKey(h)
    THEN WithoutContentType(h)
    ELSE h
FetchHeaders(m, h, requestData) ==
    IF AttachesBody(m, requestData) /\ IsFormData(requestData) /\ HasContentTypeKey(h)
    THEN WithoutContentType(h)
    ELSE h
\* Mutant: the body built by a template literal for every non-GET call.
FetchBody_NoDefinedCheck(m, requestData) ==
    IF m # "GET"
    THEN IF IsFormData(requestData) THEN requestData
         ELSE Str(ToStr(JSONStringify(requestData)))
    ELSE Undefined
\* fetchOptions.body; Undefined when the property is never assigned.
FetchBody(m, requestData) ==
    IF AttachesBody(m, requestData)
    THEN IF IsFormData(requestData) THEN requestData ELSE JSONStringify(requestData)
    ELSE Undefined
BodyThrows(m, requestData) ==
    AttachesBody(m, requestData) /\ ~IsFormData(requestData) /\ JSONStringifyThrows(requestData)

\* The arguments of fetch(url, fetchOptions).
FetchCall(m, h, env, path, requestData) ==
    [url |-> [href |-> Href(env, path), searchParams |-> SearchParams(m, requestData)],
     method |-> m,
     headers |-> FetchHeaders(m, h, requestData),
     body |-> FetchBody(m, requestData)]

(***************************************************************************)
(* The catch clause: lines 382-390.                                        *)
(***************************************************************************)
\* Mutant: whatever was thrown is thrown again as it is.
errorInstance_Raw(error) == error
\* Mutant: every thrown value wrapped in a new Error.
errorInstance_AlwaysWraps(error) ==
    ErrorObj("Error", IF error.t = "Error" THEN error.message ELSE ToStr(error), "catch")
errorInstance(error) ==
    IF error.t = "Error" THEN error ELSE ErrorObj("Error", ToStr(error), "catch")

(***************************************************************************)
(* The response: lines 349-381.                                            *)
(***************************************************************************)
\* Mutant: every status below 400 taken for a success.
Ok_Below400(status) == status >= 200 /\ status < 400
\* response.ok
Ok(status) == status >= 200 /\ status <= 299
\* Mutant: the status left out of the message.
HttpErrorOf_NoStatus(status) == ErrorObj("Error", "HTTP error!", "status")
HttpErrorOf(status) ==
    ErrorObj("Error", "HTTP error! status: " \o NatToString(status), "status")

\* Mutant: the content type compared for equality.
ReaderOf_ExactMatch(tr, contentType) ==
    IF tr.response # "none" THEN "transform"
    ELSE IF contentType = Str("application/json") THEN "json"
    ELSE "text"
\* Which read of the body the success path starts.
ReaderOf(tr, contentType) ==
    IF tr.response # "none" THEN "transform"
    ELSE IF contentType # Null /\ Includes(contentType.s, "application/json") THEN "json"
    ELSE "text"

\* JSON.parse of the bodies the servers send; Undefined stands for a SyntaxError.
JSONParse(text) ==
    CASE text = "{\"id\":2}" -> Obj(<< <<"id", Num(2)>> >>)
      [] text = "{\"data\":{\"id\":2}}" -> Obj(<< <<"data", Obj(<< <<"id", Num(2)>> >>)>> >>)
      [] OTHER -> Undefined
JSONParseThrows(text) == JSONParse(text) = Undefined
\* obj.data
GetData(obj) ==
    IF \E k \in 1..Len(obj.entries) : obj.entries[k][1] = "data"
    THEN obj.entries[CHOOSE k \in 1..Len(obj.entries) : obj.entries[k][1] = "data"][2]
    ELSE Undefined

\* Whether the awaited read rejects, and what it yields otherwise.
ReadThrows(reader, response) == reader \in {"json", "transform"} /\ JSONParseThrows(response.text)
ReadValue(reader, response) ==
    CASE reader = "json" -> JSONParse(response.text)
      [] reader = "transform" -> GetData(JSONParse(response.text))
      [] OTHER -> Str(response.text)

\* const tagList = Array.isArray(tags) ? tags : [tags], under if (tags)
TagList(tg) ==
    IF ~Truthy(tg) THEN <<>>
    ELSE IF tg.t = "Array" THEN tg.entries ELSE <<tg.s>>
Reverse(q) == [k \in 1..Len(q) |-> q[Len(q) + 1 - k]]
\* Mutant: the tag list walked from its end.
RevalidateCalls_Reversed(tg, failAt) ==
    IF failAt = 0 THEN Reverse(TagList(tg)) ELSE SubSeq(Reverse(TagList(tg)), 1, failAt)
\* Mutant: the loop goes on after a revalidateTag call has thrown.
RevalidateCalls_ContinuesAfterThrow(tg, failAt) == TagList(tg)
\* The revalidateTag calls made when the failAt-th one throws (0: none does).
RevalidateCalls(tg, failAt) ==
    IF failAt = 0 THEN TagList(tg) ELSE SubSeq(TagList(tg), 1, failAt)
Revalidated(tg, failAt) ==
    IF failAt = 0 THEN TagList(tg) ELSE SubSeq(TagList(tg), 1, failAt - 1)

(***************************************************************************)
(* The invocations.                                                        *)
(***************************************************************************)
Slots == {"first", "second"}

IdleInvocation ==
    [pc |-> "idle", data |-> Undefined, requestData |-> Undefined,
     transformed |-> FALSE, fetches |-> <<>>, response |-> <<>>, reader |-> "none",
     parsed |-> FALSE, result |-> Undefined, calls |-> <<>>, revalidated |-> <<>>,
     stage |-> "none", thrown |-> <<>>, error |-> <<>>]

\* The catch clause settles the promise with the normalised error.
Rejected(rec, stage, error) ==
    [rec EXCEPT !.pc = "rejected", !.stage = stage, !.thrown = <<error>>,
                !.error = <<errorInstance(error)>>]

\* From the call to the first await: lines 298-349.
Started(rec, cl, env, data) ==
    LET called == [rec EXCEPT !.pc = "fetching", !.data = data,
                              !.transformed = TransformsRequest(cl.transform.request, data)]
        rd == requestDataOf(cl.transform.request, data)
        built == [called EXCEPT !.requestData = rd]
    IN  IF called.transformed /\ RequestTransformThrows(cl.transform.request)
        THEN Rejected(called, "transform.request", RequestTransformThrown(cl.transform.request))
        ELSE IF URLThrows(Href(env, cl.input))
        THEN Rejected(built, "url", ErrorObj("TypeError", "Invalid URL", "url"))
        ELSE IF BodyThrows(cl.method, rd)
        THEN Rejected(built, "body",
                      ErrorObj("TypeError", "Do not know how to serialize a BigInt", "body"))
        ELSE [built EXCEPT !.fetches = Append(@, FetchCall(cl.method, cl.headers, env, cl.input, rd))]

\* Mutant: Content-Type deleted from the configured object itself.
HeadersAfterCall_DeletesInPlace(cl, data) ==
    FetchHeaders(cl.method, cl.headers, requestDataOf(cl.transform.request, data))
\* The headers object of the closure after a call: the copy is what is edited.
HeadersAfterCall(cl, data) == cl.headers

Call(s, data) ==
    /\ s \in active
    /\ inv[s].pc = "idle"
    /\ inv' = [inv EXCEPT ![s] = Started(IdleInvocation, closure, API_URL, data)]
    /\ closure' = [closure EXCEPT !.headers = HeadersAfterCall(closure, data)]
    /\ UNCHANGED <<config, API_URL, active, processEnv, appDir, routing, seo>>

\* fetch rejects: no response.
FetchFails(s) ==
    /\ inv[s].pc = "fetching"
    /\ inv' = [inv EXCEPT ![s] =
                  Rejected(@, "network", ErrorObj("TypeError", "fetch failed", "fetch"))]
    /\ UNCHANGED <<config, closure, API_URL, active, processEnv, appDir, routing, seo>>

\* Mutant: the status check dropped.
Responded_NoStatusCheck(rec, cl, response) ==
    [rec EXCEPT !.response = <<response>>, !.pc = "reading",
                !.reader = ReaderOf(cl.transform, response.contentType)]
\* Mutant: a 5xx answer retried once.
Responded_RetryOnServerError(rec, cl, response) ==
    IF response.status >= 500 /\ Len(rec.fetches) < 2
    THEN [rec EXCEPT !.fetches = Append(@, @[1])]
    ELSE IF ~Ok(response.status)
    THEN Rejected([rec EXCEPT !.response = <<response>>], "status", HttpErrorOf(response.status))
    ELSE [rec EXCEPT !.response = <<response>>, !.pc = "reading",
                     !.reader = ReaderOf(cl.transform, response.contentType)]
\* From the response to the second await: lines 349-370.
Responded(rec, cl, response) ==
    LET got == [rec EXCEPT !.response = <<response>>]
    IN  IF ~Ok(response.status)
        THEN Rejected(got, "status", HttpErrorOf(response.status))
        ELSE [got EXCEPT !.pc = "reading",
                         !.reader = ReaderOf(cl.transform, response.contentType)]

FetchResolves(s, response) ==
    /\ inv[s].pc = "fetching"
    /\ inv' = [inv EXCEPT ![s] = Responded(@, closure, response)]
    /\ UNCHANGED <<config, closure, API_URL, active, processEnv, appDir, routing, seo>>

\* The body stream breaks under the read.
ReadFails(s) ==
    /\ inv[s].pc = "reading"
    /\ inv' = [inv EXCEPT ![s] =
                  Rejected(@, "parse", ErrorObj("TypeError", "terminated", "read"))]
    /\ UNCHANGED <<config, closure, API_URL, active, processEnv, appDir, routing, seo>>

\* Mutant: the tags revalidated before the body is awaited.
Settled_RevalidatesBeforeRead(rec, cl, failAt) ==
    LET response == rec.response[1]
        told == [rec EXCEPT !.calls = RevalidateCalls(cl.tags, failAt),
                            !.revalidated = Revalidated(cl.tags, failAt)]
        read == [told EXCEPT !.parsed = TRUE, !.result = ReadValue(rec.reader, response)]
    IN  IF ReadThrows(rec.reader, response)
        THEN Rejected(told, "parse",
                      ErrorObj("SyntaxError", "Unexpected token in JSON", "parse"))
        ELSE IF failAt # 0
        THEN Rejected(read, "revalidate",
                      ErrorObj("Error", "static generation store missing", "revalidateTag"))
        ELSE [read EXCEPT !.pc = "resolved"]
\* Mutant: a throwing revalidateTag caught and dropped inside the loop.
Settled_SwallowsRevalidateError(rec, cl, failAt) ==
    LET response == rec.response[1]
        read == [rec EXCEPT !.parsed = TRUE, !.result = ReadValue(rec.reader, response)]
        told == [read EXCEPT !.calls = RevalidateCalls(cl.tags, failAt),
                             !.revalidated = Revalidated(cl.tags, failAt)]
    IN  IF ReadThrows(rec.reader, response)
        THEN Rejected(rec, "parse",
                      ErrorObj("SyntaxError", "Unexpected token in JSON", "parse"))
        ELSE [told EXCEPT !.pc = "resolved"]
\* From the read to the settlement: lines 360-381.
Settled(rec, cl, failAt) ==
    LET response == rec.response[1]
        read == [rec EXCEPT !.parsed = TRUE, !.result = ReadValue(rec.reader, response)]
        told == [read EXCEPT !.calls = RevalidateCalls(cl.tags, failAt),
                             !.revalidated = Revalidated(cl.tags, failAt)]
    IN  IF ReadThrows(rec.reader, response)
        THEN Rejected(rec, "parse",
                      ErrorObj("SyntaxError", "Unexpected token in JSON", "parse"))
        ELSE IF failAt # 0
        THEN Rejected(told, "revalidate",
                      ErrorObj("Error", "static generation store missing", "revalidateTag"))
        ELSE [told EXCEPT !.pc = "resolved"]

ReadSettles(s, failAt) ==
    /\ inv[s].pc = "reading"
    /\ failAt \in 0..Len(TagList(tags))
    /\ failAt # 0 => ~ReadThrows(inv[s].reader, inv[s].response[1])
    /\ inv' = [inv EXCEPT ![s] = Settled(@, closure, failAt)]
    /\ UNCHANGED <<config, closure, API_URL, active, processEnv, appDir, routing, seo>>

\* The caller has its result or its error; the slot is free for the next call.
Return(s) ==
    /\ inv[s].pc \in {"resolved", "rejected"}
    /\ inv' = [inv EXCEPT ![s] = IdleInvocation]
    /\ UNCHANGED <<config, closure, API_URL, active, processEnv, appDir, routing, seo>>

(***************************************************************************)
(* app/sitemap.ts and app/robots.ts: the base URL of the site.             *)
(***************************************************************************)
\* The values an environment variable takes: unset, empty, or a text.
EnvValues(texts) == {Undefined, Str("")} \cup {Str(x) : x \in texts}
SeoEnvironments ==
    [VERCEL_URL : EnvValues({"app.vercel.app"}),
     NETLIFY : {Undefined, Str("true")},
     URL : EnvValues({"https://app.netlify.app"}),
     RAILWAY_STATIC_URL : EnvValues({"app.up.railway.app"}),
     NEXT_PUBLIC_URL : EnvValues({"https://example.org"}),
     NODE_ENV : {Undefined, Str("production"), Str("development")}]
UnsetEnvironment ==
    [VERCEL_URL |-> Undefined, NETLIFY |-> Undefined, URL |-> Undefined,
     RAILWAY_STATIC_URL |-> Undefined, NEXT_PUBLIC_URL |-> Undefined,
     NODE_ENV |-> Undefined]

\* getBaseUrl of app/sitemap.ts
SitemapGetBaseUrl(e) ==
    IF Truthy(e.VERCEL_URL) THEN "https://" \o ToStr(e.VERCEL_URL)
    ELSE IF Truthy(e.NETLIFY) /\ Truthy(e.URL) THEN e.URL.s
    ELSE IF Truthy(e.RAILWAY_STATIC_URL) THEN "https://" \o ToStr(e.RAILWAY_STATIC_URL)
    ELSE IF Truthy(e.NEXT_PUBLIC_URL) THEN e.NEXT_PUBLIC_URL.s
    ELSE IF e.NODE_ENV = Str("production") THEN "https://your-domain.com"
    ELSE "http://localhost:3000"

\* Mutant: Railway asked before Netlify.
RobotsGetBaseUrl_RailwayFirst(e) ==
    IF Truthy(e.VERCEL_URL) THEN "https://" \o ToStr(e.VERCEL_URL)
    ELSE IF Truthy(e.RAILWAY_STATIC_URL) THEN "https://" \o ToStr(e.RAILWAY_STATIC_URL)
    ELSE IF Truthy(e.NETLIFY) /\ Truthy(e.URL) THEN e.URL.s
    ELSE IF Truthy(e.NEXT_PUBLIC_URL) THEN e.NEXT_PUBLIC_URL.s
    ELSE IF e.NODE_ENV = Str("production") THEN "https://your-domain.com"
    ELSE "http://localhost:3000"
\* getBaseUrl of app/robots.ts
RobotsGetBaseUrl(e) ==
    IF Truthy(e.VERCEL_URL) THEN "https://" \o ToStr(e.VERCEL_URL)
    ELSE IF Truthy(e.NETLIFY) /\ Truthy(e.URL) THEN e.URL.s
    ELSE IF Truthy(e.RAILWAY_STATIC_URL) THEN "https://" \o ToStr(e.RAILWAY_STATIC_URL)
    ELSE IF Truthy(e.NEXT_PUBLIC_URL) THEN e.NEXT_PUBLIC_URL.s
    ELSE IF e.NODE_ENV = Str("production") THEN "https://your-domain.com"
    ELSE "http://localhost:3000"

\* What robots() returns.
RobotsOf(e) ==
    [rules |-> [userAgent |-> "*", allow |-> "/"],
     sitemap |-> RobotsGetBaseUrl(e) \o "/sitemap.xml"]

\* Directory entries as fs.readdirSync(dir, { withFileTypes: true }) gives
\* them: a file, a directory with its own listing, or a directory whose
\* listing throws.
File(name) == [kind |-> "file", name |-> name, readable |-> TRUE, items |-> <<>>]
Dir(name, items) == [kind |-> "dir", name |-> name, readable |-> TRUE, items |-> items]
Unreadable(name) == [kind |-> "dir", name |-> name, readable |-> FALSE, items |-> <<>>]

PageFileNames == {"page.tsx", "page.ts", "page.jsx", "page.js"}
SkippedDirectories == {"api", "_components", "_lib"}
EndsWith(s, suffix) ==
    Len(s) >= Len(suffix) /\ SubSeq(s, Len(s) - Len(suffix) + 1, Len(s)) = suffix
IsDynamicSegment(name) == StartsWith(name, "[") /\ EndsWith(name, "]")

\* findPageFiles(dir, baseRoute): the for loop over items, and the try/catch
\* around readdirSync that leaves routes empty.
RECURSIVE FindPageFiles(_, _)
RECURSIVE ScanItems(_, _)
\* findPageFiles(fullPath, '') below a [locale] directory
LocaleBaseRoute(baseRoute) == ""
ScanItems(items, baseRoute) ==
    IF items = <<>> THEN <<>>
    ELSE LET item == Head(items)
             found ==
                 IF item.kind = "dir"
                 THEN IF IsDynamicSegment(item.name) /\ item.name # "[locale]" THEN <<>>
                      ELSE IF item.name \in SkippedDirectories THEN <<>>
                      ELSE IF item.name = "[locale]"
                      THEN FindPageFiles(item, LocaleBaseRoute(baseRoute))
                      ELSE FindPageFiles(item, baseRoute \o "/" \o item.name)
                 ELSE IF item.name \in PageFileNames
                 THEN << IF baseRoute # "" THEN baseRoute ELSE "/" >>
                 ELSE <<>>
         IN  found \o ScanItems(Tail(items), baseRoute)
FindPageFiles(dir, baseRoute) ==
    IF dir.readable THEN ScanItems(dir.items, baseRoute) ELSE <<>>

NormalizeRoute(route) ==
    IF route = "/" THEN ""
    ELSE IF StartsWith(route, "/") THEN route ELSE "/" \o route
\* [...new Set(list)]: the first occurrence of each value, in order.
RECURSIVE Unique(_)
Unique(list) ==
    IF list = <<>> THEN <<>>
    ELSE LET front == Unique(SubSeq(list, 1, Len(list) - 1))
             last == list[Len(list)]
         IN  IF \E i \in 1..Len(front) : front[i] = last THEN front
             ELSE Append(front, last)
GetAllRoutes(dir) ==
    LET routes == FindPageFiles(dir, "")
    IN  Unique([i \in 1..Len(routes) |-> NormalizeRoute(routes[i])])

\* generateLocalizedRoutes: for each route, for each locale, one push.
RECURSIVE LocalizedOf(_, _, _)
LocalizedOf(route, locales, defaultLocale) ==
    IF locales = <<>> THEN <<>>
    ELSE << IF Head(locales) = defaultLocale THEN route
            ELSE "/" \o Head(locales) \o route >>
         \o LocalizedOf(route, Tail(locales), defaultLocale)
\* Mutant: only the routes of the default locale.
GenerateLocalizedRoutes_DefaultOnly(routes, r) == routes
RECURSIVE GenerateLocalizedRoutes(_, _)
GenerateLocalizedRoutes(routes, r) ==
    IF routes = <<>> THEN <<>>
    ELSE LocalizedOf(Head(routes), r.locales, r.defaultLocale)
         \o GenerateLocalizedRoutes(Tail(routes), r)

\* One sitemap entry; priority is held in tenths (10 is 1.0, 8 is 0.8).
SitemapEntry(baseUrl, route, today) ==
    [url |-> baseUrl \o route, lastModified |-> today,
     changeFrequency |-> "weekly", priority |-> IF route = "" THEN 10 ELSE 8]

\* new Date().toISOString().split('T')[0]
Dates == {"2024-01-01", "2025-06-30"}

\* src/app of the repository and its i18n routing.
RepositoryAppDir ==
    Dir("app", << Dir("[locale]", << File("layout.tsx"), File("page.tsx") >>),
                  File("layout.tsx"), File("robots.ts"), File("sitemap.ts") >>)
RepositoryRouting == [locales |-> <<"en", "tr">>, defaultLocale |-> "en"]
Routings ==
    {RepositoryRouting,
     [locales |-> <<"en", "tr", "fr">>, defaultLocale |-> "en"],
     [locales |-> <<"tr", "en">>, defaultLocale |-> "tr"]}

\* Directory trees: src/app holds an optional page, one directory with a
\* listing of up to MaxEntries entries, and an optional about directory.
DirectoryNames == {"about", "[locale]", "api", "[slug]", "_lib"}
LeafDirs ==
    {Dir(n, << File("page.tsx") >>) : n \in DirectoryNames}
        \cup {Dir("about", <<>>), Unreadable("about")}
Entries == {File("page.js"), File("layout.tsx")} \cup LeafDirs
Listings ==
    {q \in UNION {[1..k -> Entries] : k \in 0..MaxEntries} :
        \A i, j \in 1..Len(q) : i # j => q[i].name # q[j].name}
SubDirs ==
    {Dir(n, q) : n \in DirectoryNames, q \in Listings}
        \cup {Unreadable(n) : n \in DirectoryNames}
AppDirs ==
    {Dir("app", top \o <<d>> \o sibling) :
        top \in {<<>>, << File("page.tsx") >>},
        d \in SubDirs,
        sibling \in {<<>>, << Dir("about", << File("page.tsx") >>) >>}}
    \ {Dir("app", top \o <<d>> \o << Dir("about", << File("page.tsx") >>) >>) :
        top \in {<<>>, << File("page.tsx") >>},
        d \in {x \in SubDirs : x.name = "about"}}

NothingServed ==
    [sitemapBaseUrl |-> <<>>, routes |-> <<>>, localizedRoutes |-> <<>>,
     sitemap |-> <<>>, robots |-> <<>>]

\* generateSitemap: getBaseUrl, getAllRoutes, generateLocalizedRoutes and
\* the map to sitemap entries.
GenerateSitemap ==
    /\ seo.sitemapBaseUrl = <<>>
    /\ \E today \in Dates :
           LET baseUrl == SitemapGetBaseUrl(processEnv)
               baseRoutes == GetAllRoutes(appDir)
               allRoutes == GenerateLocalizedRoutes(baseRoutes, routing)
           IN  seo' = [seo EXCEPT
                         !.sitemapBaseUrl = <<baseUrl>>,
                         !.routes = baseRoutes,
                         !.localizedRoutes = allRoutes,
                         !.sitemap = [i \in 1..Len(allRoutes) |->
                                        SitemapEntry(baseUrl, allRoutes[i], today)]]
    /\ UNCHANGED <<config, closure, API_URL, active, inv, processEnv, appDir, routing>>

\* robots()
Robots ==
    /\ seo.robots = <<>>
    /\ seo' = [seo EXCEPT !.robots = <<RobotsOf(processEnv)>>]
    /\ UNCHANGED <<config, closure, API_URL, active, inv, processEnv, appDir, routing>>

(***************************************************************************)
(* The specifications.                                                     *)
(***************************************************************************)
Init ==
    /\ config \in Configs
    /\ closure = CreateAction(config)
    /\ API_URL \in Environments
    /\ active = {"first"}
    /\ inv = [s \in Slots |-> IdleInvocation]
    /\ processEnv = UnsetEnvironment
    /\ appDir = RepositoryAppDir
    /\ routing = RepositoryRouting
    /\ seo = NothingServed

Next ==
    \E s \in Slots :
        \/ \E data \in Payloads : Call(s, data)
        \/ FetchFails(s)
        \/ \E response \in Responses : FetchResolves(s, response)
        \/ ReadFails(s)
        \/ \E failAt \in 0..MaxTags : ReadSettles(s, failAt)
        \/ Return(s)

Spec == Init /\ [][Next]_vars

\* Two invocations of one action function in flight together.
ConcurrentConfigs ==
    [input : {"/users"}, method : {Str("GET"), Str("POST")},
     headers : {Undefined,
                Obj(<< <<"Content-Type", "application/json">>,
                       <<"Authorization", "Bearer token">> >>)},
     tags : {PairArray(<<"users", "profiles">>)},
     request : {"none", "stamp"}, response : {"none"}]
ConcurrentPayloads == {Obj(<< <<"page", Num(1)>>, <<"q", Null>> >>), FormData(1)}
ConcurrentResponses ==
    {r \in Responses :
        \/ r.status = 200 /\ r.contentType = Str("application/json")
        \/ r.status = 500 /\ r.contentType = Str("text/plain")}

InitConcurrent ==
    /\ config \in ConcurrentConfigs
    /\ closure = CreateAction(config)
    /\ API_URL = Str("https://api.example.com")
    /\ active = Slots
    /\ inv = [s \in Slots |-> IdleInvocation]
    /\ processEnv = UnsetEnvironment
    /\ appDir = RepositoryAppDir
    /\ routing = RepositoryRouting
    /\ seo = NothingServed

NextConcurrent ==
    \E s \in Slots :
        \/ \E data \in ConcurrentPayloads : Call(s, data)
        \/ FetchFails(s)
        \/ \E response \in ConcurrentResponses : FetchResolves(s, response)
        \/ ReadFails(s)
        \/ \E failAt \in 0..MaxTags : ReadSettles(s, failAt)
        \/ Return(s)

SpecConcurrent == InitConcurrent /\ [][NextConcurrent]_vars

\* The two routes of the site, in every environment.
InitSeo ==
    /\ config = CHOOSE c \in Configs : c.method = Undefined /\ c.headers = Undefined
                                          /\ c.tags = Undefined /\ c.request = "none"
                                          /\ c.response = "none"
    /\ closure = CreateAction(config)
    /\ API_URL = Undefined
    /\ active = {}
    /\ inv = [s \in Slots |-> IdleInvocation]
    /\ processEnv \in SeoEnvironments
    /\ appDir = RepositoryAppDir
    /\ routing = RepositoryRouting
    /\ seo = NothingServed

NextSeo == GenerateSitemap \/ Robots

SpecSeo == InitSeo /\ [][NextSeo]_vars

\* The sitemap over directory trees and routing configurations.
InitSitemap ==
    /\ config = CHOOSE c \in Configs : c.method = Undefined /\ c.headers = Undefined
                                          /\ c.tags = Undefined /\ c.request = "none"
                                          /\ c.response = "none"
    /\ closure = CreateAction(config)
    /\ API_URL = Undefined
    /\ active = {}
    /\ inv = [s \in Slots |-> IdleInvocation]
    /\ processEnv \in {e \in SeoEnvironments :
                          /\ e.VERCEL_URL = Undefined /\ e.NETLIFY = Undefined
                          /\ e.URL = Undefined /\ e.RAILWAY_STATIC_URL = Undefined
                          /\ e.NEXT_PUBLIC_URL = Str("https://example.org")
                          /\ e.NODE_ENV = Str("production")}
    /\ appDir \in AppDirs \cup {RepositoryAppDir, Unreadable("app")}
    /\ routing \in Routings
    /\ seo = NothingServed

NextSitemap == GenerateSitemap \/ Robots

SpecSitemap == InitSitemap /\ [][NextSitemap]_vars

(***************************************************************************)
(* What the properties below speak of.                                     *)
(***************************************************************************)
Done(s) == inv[s].pc \in {"resolved", "rejected"}
\* The tags the descriptor lists, read off the configuration as written.
Listed ==
    IF config.tags.t = "Array" THEN config.tags.entries
    ELSE IF config.tags.t = "string" /\ config.tags.s # "" THEN <<config.tags.s>>
    ELSE <<>>
HasTags == Listed # <<>>
\* The round trip of the invocation completed with a 2xx status.
RoundTripOk(s) ==
    /\ inv[s].response # <<>>
    /\ inv[s].response[1].status \in 200..299
RoundTripNotOk(s) ==
    /\ inv[s].response # <<>>
    /\ inv[s].response[1].status \notin 200..299
Count(q, x) == Cardinality({k \in 1..Len(q) : q[k] = x})
\* The request the invocation issued.
Issued(s) == inv[s].fetches # <<>>
Request(s) == inv[s].fetches[1]
\* Header names are case-insensitive on the wire.
LowerCase(name) ==
    CASE name = "Content-Type" -> "content-type"
      [] name = "Authorization" -> "authorization"
      [] OTHER -> name
CarriesHeader(h, name) ==
    \E k \in 1..Len(h.entries) : LowerCase(h.entries[k][1]) = LowerCase(name)

(***************************************************************************)
(* C1, as stated: with tags on the descriptor, the tags are invalidated    *)
(* if and only if the round trip completed with an ok status, and an       *)
(* invocation that fails invalidates nothing.                              *)
(***************************************************************************)
C1_InvalidatedIffStatusOk ==
    \A s \in Slots :
        (Done(s) /\ HasTags) =>
            /\ (inv[s].revalidated = Listed) <=> RoundTripOk(s)
            /\ inv[s].pc = "rejected" => inv[s].calls = <<>>

(***************************************************************************)
(* C1, amended: with tags on the descriptor, every listed tag is           *)
(* invalidated if and only if the round trip completed with an ok status,  *)
(* the response was then parsed and no revalidateTag call threw, which is  *)
(* when the invocation resolves; an invocation that fails before the       *)
(* invalidation step has called revalidateTag for no tag.                  *)
(***************************************************************************)
C1_InvalidatedIffOkAndParsed ==
    \A s \in Slots :
        (Done(s) /\ HasTags) =>
            /\ (inv[s].revalidated = Listed)
                 <=> (RoundTripOk(s) /\ inv[s].parsed /\ inv[s].stage # "revalidate")
            /\ (inv[s].revalidated = Listed) <=> (inv[s].pc = "resolved")
            /\ (inv[s].pc = "rejected" /\ inv[s].stage # "revalidate") => inv[s].calls = <<>>

C1_Witness ==
    \E s \in Slots :
        /\ inv[s].pc = "resolved"
        /\ Len(Listed) = 2
        /\ inv[s].revalidated = Listed

(***************************************************************************)
(* C2, as stated: after a successful response each declared tag is         *)
(* signalled exactly once, and no signal precedes the successful parse.    *)
(***************************************************************************)
C2_EachTagOnceAfterOkResponse ==
    \A s \in Slots :
        /\ (Done(s) /\ RoundTripOk(s)) =>
               \A k \in 1..Len(Listed) : Count(inv[s].calls, Listed[k]) = 1
        /\ inv[s].calls # <<>> => inv[s].parsed

(***************************************************************************)
(* C2, amended: an invocation that resolves has signalled the listed tags  *)
(* once per listing, so a tag listed twice is signalled twice; one whose   *)
(* ok response fails to parse has signalled none; and no signal precedes   *)
(* the successful parse of an ok response.                                 *)
(***************************************************************************)
C2_EachListingOnceWhenResolved ==
    \A s \in Slots :
        /\ inv[s].pc = "resolved" =>
               /\ RoundTripOk(s)
               /\ Len(inv[s].calls) = Len(Listed)
               /\ \A k \in 1..Len(Listed) :
                      Count(inv[s].calls, Listed[k]) = Count(Listed, Listed[k])
        /\ inv[s].stage = "parse" => inv[s].calls = <<>>
        /\ inv[s].calls # <<>> => (inv[s].parsed /\ RoundTripOk(s))

C2_Witness ==
    \E s \in Slots :
        /\ inv[s].pc = "resolved"
        /\ inv[s].response[1].status = 299
        /\ Listed = <<"users", "profiles">>
        /\ inv[s].calls = <<"users", "profiles">>

(***************************************************************************)
(* C3, as stated: a response outside 200-299 rejects with an HttpError     *)
(* whose numeric status is the status of the response.                     *)
(***************************************************************************)
C3_RejectsWithHttpError ==
    \A s \in Slots :
        RoundTripNotOk(s) =>
            /\ inv[s].pc = "rejected"
            /\ inv[s].error[1].name = "HttpError"
            /\ inv[s].error[1].status = Num(inv[s].response[1].status)

(***************************************************************************)
(* C3, amended: a response outside 200-299 rejects with a plain Error      *)
(* whose message is "HTTP error! status: " followed by the status in       *)
(* decimal; the error has no numeric status property.                      *)
(***************************************************************************)
C3_RejectsWithStatusInMessage ==
    \A s \in Slots :
        RoundTripNotOk(s) =>
            /\ inv[s].pc = "rejected"
            /\ inv[s].error[1].t = "Error"
            /\ inv[s].error[1].name = "Error"
            /\ inv[s].error[1].status = Undefined
            /\ inv[s].error[1].message
                 = "HTTP error! status: " \o NatToString(inv[s].response[1].status)
            /\ inv[s].response[1].status = 300
                 => inv[s].error[1].message = "HTTP error! status: 300"
            /\ inv[s].response[1].status = 500
                 => inv[s].error[1].message = "HTTP error! status: 500"

C3_Witness ==
    \E s \in Slots :
        /\ inv[s].pc = "rejected"
        /\ inv[s].response # <<>>
        /\ inv[s].response[1].status = 500
        /\ inv[s].error[1].message = "HTTP error! status: 500"

(***************************************************************************)
(* C4: after a response outside 200-299 the response transform is not      *)
(* invoked, the body is read neither as JSON nor as text, and no tag is    *)
(* invalidated.                                                            *)
(***************************************************************************)
C4_NothingReadOnFailureStatus ==
    \A s \in Slots :
        RoundTripNotOk(s) =>
            /\ inv[s].reader = "none"
            /\ ~inv[s].parsed
            /\ inv[s].result = Undefined
            /\ inv[s].calls = <<>>
            /\ inv[s].revalidated = <<>>
            /\ inv[s].pc \notin {"reading", "resolved"}

C4_Witness ==
    \E s \in Slots :
        /\ RoundTripNotOk(s)
        /\ inv[s].pc = "rejected"
        /\ HasTags
        /\ config.response # "none"
        /\ inv[s].response[1].contentType = Str("application/json")

(***************************************************************************)
(* C5, as stated: every invocation issues exactly one HTTP request.        *)
(***************************************************************************)
C5_ExactlyOneRequest ==
    \A s \in Slots : Done(s) => Len(inv[s].fetches) = 1

(***************************************************************************)
(* C5, amended: an invocation issues no request when the request           *)
(* transform, the URL construction or the serialisation of the body        *)
(* throws, and exactly one otherwise, with the method of the descriptor    *)
(* and the URL built from API_URL and the endpoint; whatever the outcome   *)
(* of that request, no second one is issued.                               *)
(***************************************************************************)
C5_AtMostOneRequest ==
    \A s \in Slots :
        /\ Len(inv[s].fetches) <= 1
        /\ inv[s].pc # "idle" =>
               (Len(inv[s].fetches) = 1
                  <=> inv[s].stage \notin {"transform.request", "url", "body"})
        /\ Issued(s) =>
               /\ Request(s).method = CreateAction(config).method
               /\ Request(s).url.href = ToStr(API_URL) \o config.input
        /\ inv[s].stage \in {"network", "status", "parse", "revalidate"} =>
               Len(inv[s].fetches) = 1

C5_Witness ==
    \E s \in Slots :
        /\ inv[s].pc = "rejected"
        /\ inv[s].stage = "status"
        /\ inv[s].response[1].status = 500
        /\ Len(inv[s].fetches) = 1

(***************************************************************************)
(* C6, as stated: every failure reaches the caller as one uniform error    *)
(* value built at the boundary, which wraps what was thrown and keeps it   *)
(* as its cause; nothing thrown inside is re-raised undecorated.           *)
(***************************************************************************)
C6_WrappedWithCause ==
    \A s \in Slots :
        inv[s].pc = "rejected" =>
            /\ inv[s].error[1].t = "Error"
            /\ inv[s].error[1] # inv[s].thrown[1]
            /\ inv[s].error[1].cause = inv[s].thrown[1]

(***************************************************************************)
(* C6, amended: every failure (request transform, URL construction, body   *)
(* serialisation, network, status, parse, invalidation) reaches the caller *)
(* as a rejection with one Error instance carrying a message; an Error     *)
(* thrown inside is re-thrown as it is, the same object with no wrapper    *)
(* and no cause, and a thrown value that is not an Error is replaced by a  *)
(* new Error whose message is String(value), which keeps no cause.         *)
(***************************************************************************)
C6_ErrorInstanceReachesCaller ==
    \A s \in Slots :
        /\ inv[s].stage # "none" <=> inv[s].pc = "rejected"
        /\ inv[s].pc = "rejected" =>
               /\ Len(inv[s].error) = 1 /\ Len(inv[s].thrown) = 1
               /\ inv[s].error[1].t = "Error"
               /\ inv[s].error[1].message # ""
               /\ inv[s].error[1].cause = Undefined
               /\ inv[s].thrown[1].t = "Error" => inv[s].error[1] = inv[s].thrown[1]
               /\ inv[s].thrown[1].t # "Error" =>
                      /\ inv[s].error[1].name = "Error"
                      /\ inv[s].error[1].oid = "catch"
                      /\ inv[s].error[1].message = ToStr(inv[s].thrown[1])

C6_Witness ==
    \E s \in Slots :
        /\ inv[s].pc = "rejected"
        /\ inv[s].stage = "transform.request"
        /\ inv[s].thrown = <<Str("invalid input")>>
        /\ inv[s].error[1].message = "invalid input"

(***************************************************************************)
(* C7: with method GET and an object payload, every entry of the           *)
(* (possibly transformed) payload whose value is neither undefined nor     *)
(* null is a query parameter (key, String(value)) of the issued request,   *)
(* and no entry whose value is undefined or null is one.                   *)
(***************************************************************************)
C7_DefinedEntriesAreQueryParameters ==
    \A s \in Slots :
        (Issued(s) /\ closure.method = "GET" /\ inv[s].requestData.t = "object") =>
            LET entries == inv[s].requestData.entries
                params == Request(s).url.searchParams
            IN  \A k \in 1..Len(entries) :
                    IF entries[k][2].t \in {"undefined", "null"}
                    THEN \A j \in 1..Len(params) : params[j][1] # entries[k][1]
                    ELSE \E j \in 1..Len(params) :
                             params[j] = <<entries[k][1], ToStr(entries[k][2])>>

C7_Witness ==
    \E s \in Slots :
        /\ Issued(s)
        /\ closure.method = "GET"
        /\ inv[s].transformed
        /\ inv[s].data = Obj(<< <<"page", Num(1)>>, <<"q", Null>> >>)
        /\ Request(s).url.searchParams = << <<"page", "1">>, <<"timestamp", "7">> >>

(***************************************************************************)
(* C8: with a method other than GET and a defined payload that is not form *)
(* data, the body of the issued request is the JSON serialisation of the   *)
(* (possibly transformed) payload and its headers are the configured ones. *)
(***************************************************************************)
C8_JsonBodyAndConfiguredHeaders ==
    \A s \in Slots :
        (/\ Issued(s)
         /\ closure.method # "GET"
         /\ inv[s].requestData # Undefined
         /\ inv[s].requestData.t # "FormData") =>
            /\ Request(s).body = JSONStringify(inv[s].requestData)
            /\ Request(s).headers = CreateAction(config).headers
            /\ inv[s].requestData = Null => Request(s).body = Str("null")
            /\ inv[s].requestData = Obj(<< <<"page", Num(1)>>, <<"q", Null>> >>)
                 => Request(s).body = Str("{\"page\":1,\"q\":null}")
            /\ inv[s].requestData
                 = Obj(<< <<"name", Str("x")>>, <<"limit", Undefined>>, <<"page", Num(10)>> >>)
                 => Request(s).body = Str("{\"name\":\"x\",\"page\":10}")

C8_Witness ==
    \E s \in Slots :
        /\ Issued(s)
        /\ closure.method = "DELETE"
        /\ config.headers # Undefined
        /\ inv[s].transformed
        /\ Request(s).body = Str("{\"name\":\"x\",\"page\":10,\"timestamp\":7}")
        /\ CarriesHeader(Request(s).headers, "Content-Type")

(***************************************************************************)
(* C9, as stated: whatever the method and the shape or casing of the       *)
(* configured headers, a form-data payload is the body of the issued       *)
(* request unchanged, and that request carries no Content-Type header.     *)
(***************************************************************************)
C9_FormDataSentWithoutContentType ==
    \A s \in Slots :
        (Issued(s) /\ inv[s].requestData.t = "FormData") =>
            /\ Request(s).body = inv[s].requestData
            /\ ~CarriesHeader(Request(s).headers, "Content-Type")

(***************************************************************************)
(* C10: when the (possibly transformed) payload is undefined the issued    *)
(* request has no body, whatever the method.                               *)
(***************************************************************************)
C10_NoBodyForUndefinedPayload ==
    \A s \in Slots :
        (Issued(s) /\ inv[s].requestData = Undefined) => Request(s).body = Undefined

C10_Witness ==
    \E s \in Slots :
        /\ Issued(s)
        /\ closure.method = "POST"
        /\ inv[s].data # Undefined
        /\ inv[s].transformed
        /\ inv[s].requestData = Undefined
        /\ Request(s).body = Undefined

(***************************************************************************)
(* C11: transform.request is applied exactly when the input data is        *)
(* defined and a request transform is supplied, and the payload of the     *)
(* request is then transform.request(data); in every other case the        *)
(* payload is the input data unchanged.                                    *)
(***************************************************************************)
C11_RequestTransformAppliedWhenDefined ==
    \A s \in Slots :
        inv[s].pc # "idle" =>
            /\ inv[s].transformed
                 <=> (config.request # "none" /\ inv[s].data.t # "undefined")
            /\ (~inv[s].transformed) => inv[s].requestData = inv[s].data
            /\ (inv[s].transformed /\ config.request = "drop")
                 => inv[s].requestData = Undefined
            /\ (inv[s].transformed /\ config.request = "stamp" /\ inv[s].data.t = "object")
                 => inv[s].requestData
                      = Obj(inv[s].data.entries \o << <<"timestamp", Num(7)>> >>)
            /\ (inv[s].transformed /\ config.request = "stamp" /\ inv[s].data = Null)
                 => inv[s].requestData = Obj(<< <<"timestamp", Num(7)>> >>)
            /\ (inv[s].transformed /\ inv[s].stage # "transform.request")
                 => inv[s].requestData = ApplyRequestTransform(config.request, inv[s].data)

C11_Witness ==
    \E s \in Slots :
        /\ Issued(s)
        /\ inv[s].transformed
        /\ inv[s].data = Null
        /\ inv[s].requestData = Obj(<< <<"timestamp", Num(7)>> >>)

(***************************************************************************)
(* C12: on a successful response, with a response transform the action     *)
(* returns what the transform resolves to and the default parse is not     *)
(* run; without one it returns the decoded JSON body when the content type *)
(* of the response contains application/json and the raw text of the body  *)
(* in every other case, a missing content type included.                   *)
(***************************************************************************)
C12_ResultOfSuccessfulResponse ==
    \A s \in Slots :
        inv[s].pc = "resolved" =>
            LET response == inv[s].response[1] IN
            /\ config.response # "none" =>
                   /\ inv[s].reader = "transform"
                   /\ inv[s].result = GetData(JSONParse(response.text))
                   /\ response.text = "{\"data\":{\"id\":2}}"
                        => inv[s].result = Obj(<< <<"id", Num(2)>> >>)
            /\ (config.response = "none" /\ response.contentType = Null) =>
                   /\ inv[s].reader = "text"
                   /\ inv[s].result = Str(response.text)
            /\ (config.response = "none" /\ response.contentType = Str("text/plain")) =>
                   /\ inv[s].reader = "text"
                   /\ inv[s].result = Str("{\"id\":2}")
            /\ (/\ config.response = "none"
                /\ response.contentType
                     \in {Str("application/json"), Str("application/json; charset=utf-8")}) =>
                   /\ inv[s].reader = "json"
                   /\ inv[s].result = JSONParse(response.text)
                   /\ response.text = "{\"id\":2}"
                        => inv[s].result = Obj(<< <<"id", Num(2)>> >>)

C12_Witness ==
    \E s \in Slots :
        /\ inv[s].pc = "resolved"
        /\ config.response = "none"
        /\ inv[s].response[1].contentType = Str("application/json; charset=utf-8")
        /\ inv[s].result = Obj(<< <<"id", Num(2)>> >>)

(***************************************************************************)
(* C13, as stated: with the base URL unset or empty at the call, the call  *)
(* fails with a ConfigurationError and no HTTP request is issued.          *)
(***************************************************************************)
C13_ConfigurationErrorWithoutBaseUrl ==
    \A s \in Slots :
        (inv[s].pc # "idle" /\ API_URL \in {Undefined, Str("")}) =>
            /\ inv[s].pc = "rejected"
            /\ inv[s].fetches = <<>>
            /\ inv[s].error[1].name = "ConfigurationError"

(***************************************************************************)
(* C13, amended: with the base URL unset or empty at the call, the call    *)
(* fails and no HTTP request is issued; the error is the TypeError         *)
(* "Invalid URL" of new URL, unless the request transform threw before the *)
(* URL was built, and it is no ConfigurationError.                         *)
(***************************************************************************)
C13_InvalidUrlWithoutBaseUrl ==
    \A s \in Slots :
        (inv[s].pc # "idle" /\ API_URL \in {Undefined, Str("")}) =>
            /\ inv[s].pc = "rejected"
            /\ inv[s].fetches = <<>>
            /\ inv[s].response = <<>>
            /\ \/ /\ inv[s].stage = "url"
                  /\ inv[s].error[1].name = "TypeError"
                  /\ inv[s].error[1].message = "Invalid URL"
               \/ /\ inv[s].stage = "transform.request"
                  /\ inv[s].transformed
                  /\ config.request \in {"throwError", "throwString"}

C13_Witness ==
    \E s \in Slots :
        /\ API_URL = Undefined
        /\ inv[s].pc = "rejected"
        /\ inv[s].stage = "url"
        /\ inv[s].data = Obj(<< <<"page", Num(1)>>, <<"q", Null>> >>)
        /\ inv[s].error[1].name = "TypeError"

(***************************************************************************)
(* C14: with several tags on the descriptor, the invalidation signals are  *)
(* issued in the order of the list, and all of them have completed when    *)
(* the promise of the action function resolves.                            *)
(***************************************************************************)
C14_SignalsInListedOrder ==
    \A s \in Slots :
        /\ Len(inv[s].calls) <= Len(Listed)
        /\ \A k \in 1..Len(inv[s].calls) : inv[s].calls[k] = Listed[k]
        /\ \A k \in 1..Len(inv[s].revalidated) : inv[s].revalidated[k] = Listed[k]
        /\ inv[s].pc = "resolved" =>
               /\ inv[s].calls = Listed
               /\ inv[s].revalidated = Listed

C14_Witness ==
    \E s \in Slots :
        /\ inv[s].pc = "resolved"
        /\ Listed = <<"profiles", "users">>
        /\ inv[s].revalidated = <<"profiles", "users">>

(***************************************************************************)
(* C15: a failing invalidation does not mask the result: when the response *)
(* was ok and parsed and revalidateTag throws for a tag, the caller still  *)
(* obtains the parsed result.                                              *)
(***************************************************************************)
RevalidateThrew(s) == Len(inv[s].calls) = Len(inv[s].revalidated) + 1
C15_ResultSurvivesInvalidationFailure ==
    \A s \in Slots :
        (Done(s) /\ RoundTripOk(s) /\ inv[s].parsed /\ RevalidateThrew(s)) =>
            /\ inv[s].pc = "resolved"
            /\ inv[s].result = ReadValue(inv[s].reader, inv[s].response[1])

(***************************************************************************)
(* C16: an invalidation error is never silently swallowed: when            *)
(* revalidateTag throws during an invocation, the caller observes the      *)
(* failure, which in this code means the promise rejects with that error.  *)
(***************************************************************************)
C16_InvalidationErrorPropagates ==
    \A s \in Slots :
        /\ RevalidateThrew(s) =>
               /\ inv[s].pc = "rejected"
               /\ inv[s].error # <<>>
               /\ inv[s].error[1].t = "Error"
               /\ inv[s].error[1].oid = "revalidateTag"
        /\ inv[s].pc = "resolved" => inv[s].calls = inv[s].revalidated

C16_Witness ==
    \E s \in Slots :
        /\ inv[s].pc = "rejected"
        /\ Listed = <<"users", "profiles">>
        /\ inv[s].calls = <<"users", "profiles">>
        /\ inv[s].revalidated = <<"users">>
        /\ inv[s].error[1].oid = "revalidateTag"

(***************************************************************************)
(* C17: invocations are independent: under every interleaving of two       *)
(* invocations of an action function, the request, the result or error and *)
(* the invalidated tags of each are those of that invocation run alone on  *)
(* the descriptor as configured, with its own input, its own response and  *)
(* its own failures.                                                       *)
(***************************************************************************)
\* The invocation of slot s replayed alone from the configuration as written.
RunAlone(s) ==
    LET r == inv[s]
        cl == CreateAction(config)
        started == Started(IdleInvocation, cl, API_URL, r.data)
        failed == Rejected(started, "network", ErrorObj("TypeError", "fetch failed", "fetch"))
        responded == Responded(started, cl, r.response[1])
        broken == Rejected(responded, "parse", ErrorObj("TypeError", "terminated", "read"))
        failAt == IF r.stage = "revalidate" THEN Len(r.calls) ELSE 0
    IN  IF r.pc = "idle" THEN IdleInvocation
        ELSE IF r.pc = "fetching" \/ r.stage \in {"transform.request", "url", "body"}
        THEN started
        ELSE IF r.stage = "network" THEN failed
        ELSE IF r.pc = "reading" \/ r.stage = "status" THEN responded
        ELSE IF r.stage = "parse" /\ r.thrown[1].oid = "read" THEN broken
        ELSE Settled(responded, cl, failAt)

C17_InvocationsIndependent ==
    \A s \in Slots :
        /\ inv[s] = RunAlone(s)
        /\ closure = CreateAction(config)

C17_Witness ==
    /\ inv["first"].pc = "resolved"
    /\ inv["first"].data = FormData(1)
    /\ closure.method = "POST"
    /\ inv["second"].pc = "rejected"
    /\ inv["second"].stage = "status"
    /\ inv["second"].data = Obj(<< <<"page", Num(1)>>, <<"q", Null>> >>)
    /\ CarriesHeader(inv["second"].fetches[1].headers, "Content-Type")
    /\ ~CarriesHeader(inv["first"].fetches[1].headers, "Content-Type")

(***************************************************************************)
(* C18: no invocation changes the headers of the descriptor: whatever has  *)
(* been invoked, form data included, the configured headers are what they  *)
(* were, and a JSON invocation sends the configured Content-Type.          *)
(***************************************************************************)
C18_ConfiguredHeadersUnchanged ==
    /\ closure.headers
         = (IF config.headers = Undefined
            THEN Obj(<< <<"Content-Type", "application/json">> >>)
            ELSE config.headers)
    /\ \A s \in Slots :
           (/\ Issued(s)
            /\ inv[s].requestData.t \notin {"FormData", "undefined"}
            /\ closure.method # "GET") =>
               CarriesHeader(Request(s).headers, "Content-Type")

C18_Witness ==
    \E s, t \in Slots :
        /\ s # t
        /\ Done(s)
        /\ Issued(s)
        /\ inv[s].requestData = FormData(1)
        /\ closure.method = "POST"
        /\ config.headers # Undefined
        /\ ~CarriesHeader(Request(s).headers, "Content-Type")
        /\ inv[t].pc = "fetching"
        /\ inv[t].requestData.t = "object"
        /\ Request(t).headers = config.headers

(***************************************************************************)
(* C19: a descriptor without method is requested with POST; a descriptor   *)
(* without headers is requested with exactly Content-Type:                 *)
(* application/json, unless the payload is form data.                      *)
(***************************************************************************)
C19_DefaultMethodAndHeaders ==
    \A s \in Slots :
        Issued(s) =>
            /\ config.method = Undefined => Request(s).method = "POST"
            /\ config.method # Undefined => Request(s).method = config.method.s
            /\ (config.headers = Undefined /\ inv[s].requestData.t # "FormData") =>
                   Request(s).headers = Obj(<< <<"Content-Type", "application/json">> >>)

C19_Witness ==
    \E s \in Slots :
        /\ Issued(s)
        /\ config.method = Undefined
        /\ config.headers = Undefined
        /\ inv[s].requestData.t = "object"
        /\ Request(s).method = "POST"
        /\ Request(s).body = Str("{\"page\":1,\"q\":null}")

(***************************************************************************)
(* C20: getBaseUrl takes the first source that is set, in the order        *)
(* VERCEL_URL (behind https://), URL when NETLIFY is set too,              *)
(* RAILWAY_STATIC_URL (behind https://), NEXT_PUBLIC_URL, and otherwise    *)
(* https://your-domain.com in production and http://localhost:3000         *)
(* elsewhere; the sitemap and the robots file resolve the same base URL in *)
(* every environment, so the sitemap link of the robots file is that base  *)
(* URL followed by /sitemap.xml.                                           *)
(***************************************************************************)
IsSet(v) == v.t = "string" /\ v.s # ""
\* base is the base URL the stated order gives in the environment e.
InStatedOrder(e, base) ==
    LET vercel == IsSet(e.VERCEL_URL)
        netlify == IsSet(e.NETLIFY) /\ IsSet(e.URL)
        railway == IsSet(e.RAILWAY_STATIC_URL)
        public == IsSet(e.NEXT_PUBLIC_URL)
    IN  /\ vercel => base = "https://" \o e.VERCEL_URL.s
        /\ (~vercel /\ netlify) => base = e.URL.s
        /\ (~vercel /\ ~netlify /\ railway) => base = "https://" \o e.RAILWAY_STATIC_URL.s
        /\ (~vercel /\ ~netlify /\ ~railway /\ public) => base = e.NEXT_PUBLIC_URL.s
        /\ (~vercel /\ ~netlify /\ ~railway /\ ~public) =>
               base = (IF e.NODE_ENV.t = "string" /\ e.NODE_ENV.s = "production"
                       THEN "https://your-domain.com"
                       ELSE "http://localhost:3000")

SitemapServed == seo.sitemapBaseUrl # <<>>
\* The sitemap entry of base route i in locale j.
EntryOf(i, j) == seo.sitemap[(i - 1) * Len(routing.locales) + j]
C21_HomepagesOfAllLocalesTopPriority ==
    SitemapServed =>
        /\ Len(seo.sitemap) = Len(seo.routes) * Len(routing.locales)
        /\ \A i \in 1..Len(seo.routes), j \in 1..Len(routing.locales) :
               EntryOf(i, j).priority = (IF seo.routes[i] = "" THEN 10 ELSE 8)

(***************************************************************************)
(* C22: generateLocalizedRoutes returns exactly one entry for every base   *)
(* route r and every configured locale l, r itself when l is the default   *)
(* locale and /l followed by r otherwise, and nothing else: its length is  *)
(* the number of base routes times the number of locales.                  *)
(***************************************************************************)
C22_OneEntryPerRouteAndLocale ==
    SitemapServed =>
        LET n == Len(seo.routes)
            m == Len(routing.locales)
        IN  /\ Len(seo.localizedRoutes) = n * m
            /\ \A i \in 1..n, j \in 1..m :
                   seo.localizedRoutes[(i - 1) * m + j]
                     = (IF routing.locales[j] = routing.defaultLocale
                        THEN seo.routes[i]
                        ELSE "/" \o routing.locales[j] \o seo.routes[i])

C22_Witness ==
    /\ SitemapServed
    /\ seo.routes = <<"", "/about">>
    /\ routing.locales = <<"en", "tr", "fr">>
    /\ seo.localizedRoutes = <<"", "/tr", "/fr", "/about", "/tr/about", "/fr/about">>

(***************************************************************************)
(* C23: route discovery returns each route at most once, and returns a     *)
(* route exactly when a page file is reachable without passing through a   *)
(* directory named api, _components or _lib or a bracketed segment other   *)
(* than [locale]; a [locale] directory contributes no path segment; a      *)
(* directory that cannot be read is skipped and the others are still       *)
(* discovered.                                                             *)
(***************************************************************************)
\* The routes of the page files reachable in dir, whose own route is route.
RECURSIVE ReachableRoutes(_, _)
ReachableRoutes(dir, route) ==
    IF ~dir.readable THEN {}
    ELSE UNION {
        LET item == dir.items[i]
        IN  IF item.kind = "file"
            THEN IF item.name \in {"page.tsx", "page.ts", "page.jsx", "page.js"}
                 THEN {route} ELSE {}
            ELSE IF item.name = "[locale]" THEN ReachableRoutes(item, route)
            ELSE IF item.name \in {"api", "_components", "_lib"} THEN {}
            ELSE IF SubSeq(item.name, 1, 1) = "["
                    /\ SubSeq(item.name, Len(item.name), Len(item.name)) = "]" THEN {}
            ELSE ReachableRoutes(item, route \o "/" \o item.name)
        : i \in 1..Len(dir.items)}

C23_RoutesAreTheReachablePages ==
    SitemapServed =>
        /\ \A i, j \in 1..Len(seo.routes) : i # j => seo.routes[i] # seo.routes[j]
        /\ {seo.routes[i] : i \in 1..Len(seo.routes)} = ReachableRoutes(appDir, "")

(***************************************************************************)
(* C24: if the request transform throws, or the URL cannot be constructed, *)
(* the invocation rejects without issuing any HTTP request and without     *)
(* invalidating any tag.                                                   *)
(***************************************************************************)
C24_EarlyFailureIssuesNothing ==
    \A s \in Slots :
        LET transformThrows ==
                /\ config.request \in {"throwError", "throwString"}
                /\ inv[s].data # Undefined
            urlFails == API_URL \in {Undefined, Str("")}
        IN  (inv[s].pc # "idle" /\ (transformThrows \/ urlFails)) =>
                /\ inv[s].pc = "rejected"
                /\ inv[s].error # <<>>
                /\ inv[s].fetches = <<>>
                /\ inv[s].response = <<>>
                /\ inv[s].calls = <<>>
                /\ inv[s].revalidated = <<>>

C24_Witness ==
    \E s \in Slots :
        /\ inv[s].pc = "rejected"
        /\ config.request = "throwError"
        /\ inv[s].data = Obj(<< <<"page", Num(1)>>, <<"q", Null>> >>)
        /\ API_URL = Str("https://api.example.com")
        /\ Len(Listed) = 2
        /\ inv[s].fetches = <<>>
        /\ inv[s].calls = <<>>

(***************************************************************************)
(* C25: if invalidating the k-th tag of the list throws, the tags before   *)
(* it have been invalidated, no tag after it is invalidated or even asked  *)
(* for, and the invocation rejects with that error although the response   *)
(* was ok and parsed.                                                      *)
(***************************************************************************)
C25_InvalidationStopsAtFailingTag ==
    \A s \in Slots :
        inv[s].stage = "revalidate" =>
            /\ \E k \in 1..Len(Listed) :
                   /\ inv[s].calls = SubSeq(Listed, 1, k)
                   /\ inv[s].revalidated = SubSeq(Listed, 1, k - 1)
            /\ inv[s].pc = "rejected"
            /\ inv[s].error = inv[s].thrown
            /\ inv[s].error[1].oid = "revalidateTag"
            /\ inv[s].response[1].status \in 200..299
            /\ inv[s].parsed

C25_Witness ==
    \E s \in Slots :
        /\ inv[s].stage = "revalidate"
        /\ Listed = <<"profiles", "users">>
        /\ inv[s].calls = <<"profiles">>
        /\ inv[s].revalidated = <<>>
        /\ inv[s].parsed
        /\ inv[s].pc = "rejected"

(***************************************************************************)
(* C26: a GET invocation never attaches a request body, whatever the       *)
(* payload; a GET payload that is not an object (a string, a number)       *)
(* gives neither a body nor a query parameter, and the request is still    *)
(* issued.                                                                 *)
(***************************************************************************)
C26_GetNeverAttachesBody ==
    \A s \in Slots :
        (/\ inv[s].pc # "idle"
         /\ config.method = Str("GET")
         /\ ~(config.request \in {"throwError", "throwString"} /\ inv[s].data # Undefined)
         /\ API_URL \notin {Undefined, Str("")}) =>
            /\ Issued(s)
            /\ Request(s).method = "GET"
            /\ Request(s).body = Undefined
            /\ inv[s].requestData.t \in {"string", "number", "bigint", "undefined", "null"} =>
                   Request(s).url.searchParams = <<>>

C26_Witness ==
    \E s \in Slots :
        /\ Issued(s)
        /\ config.method = Str("GET")
        /\ inv[s].requestData = Str("x")
        /\ Request(s).body = Undefined
        /\ Request(s).url.searchParams = <<>>

(***************************************************************************)
(* C27: in the catch clause a thrown Error instance is thrown again as the *)
(* very same object, its message unchanged, and a thrown value that is not *)
(* an Error is replaced by a new Error whose message is String(value); an  *)
(* invocation in which something was thrown never resolves.                *)
(***************************************************************************)
C27_CatchRethrowsOrWraps ==
    \A s \in Slots :
        /\ inv[s].thrown # <<>> =>
               LET value == inv[s].thrown[1]
                   rethrown == inv[s].error[1]
               IN  /\ inv[s].pc = "rejected"
                   /\ value.t = "Error" =>
                          /\ rethrown.oid = value.oid
                          /\ rethrown.message = value.message
                          /\ rethrown.name = value.name
                   /\ value.t # "Error" =>
                          /\ rethrown.t = "Error"
                          /\ rethrown.name = "Error"
                          /\ rethrown # value
                          /\ rethrown.message = ToStr(value)
        /\ inv[s].pc = "resolved" => (inv[s].thrown = <<>> /\ inv[s].error = <<>>)

C27_Witness ==
    \E s \in Slots :
        /\ inv[s].pc = "rejected"
        /\ inv[s].stage = "body"
        /\ inv[s].thrown[1].name = "TypeError"
        /\ inv[s].error[1].name = "TypeError"
        /\ inv[s].error[1].oid = "body"

(***************************************************************************)
(* C28: for an invocation with a method other than GET and a form-data     *)
(* payload, every configured header other than Content-Type is sent        *)
(* unchanged on the issued request.                                        *)
(***************************************************************************)
C28_OtherHeadersKeptForFormData ==
    \A s \in Slots :
        (/\ Issued(s)
         /\ Request(s).method # "GET"
         /\ inv[s].requestData.t = "FormData"
         /\ config.headers # Undefined) =>
            \A k \in 1..Len(config.headers.entries) :
                LowerCase(config.headers.entries[k][1]) # "content-type" =>
                    \E j \in 1..Len(Request(s).headers.entries) :
                        Request(s).headers.entries[j] = config.headers.entries[k]

C28_Witness ==
    \E s \in Slots :
        /\ Issued(s)
        /\ Request(s).method = "DELETE"
        /\ inv[s].requestData = FormData(1)
        /\ config.headers = Obj(<< <<"Content-Type", "application/json">>,
                                   <<"Authorization", "Bearer token">> >>)
        /\ Request(s).headers = Obj(<< <<"Authorization", "Bearer token">> >>)
====
